---- MODULE Spec2Model ----
(***************************************************************************)
(* Model of src/widgets/volume.rs: the bridge between the ALSA mixer's     *)
(* poll descriptors and the tokio reactor.                                 *)
(*                                                                         *)
(*   AlsaEvented      - registers / deregisters the mixer's descriptors    *)
(*   AlsaEventStream  - Stream::poll(), here called advance()              *)
(*                                                                         *)
(* poll() is modelled step by step (readiness check, poll_all, the revents *)
(* loop, need_read, return) so that native events and reactor wake-ups can *)
(* interleave with it.                                                     *)
(***************************************************************************)
EXTENDS Naturals, Sequences, FiniteSets

\* ---------------------------------------------------------------- bounds
MaxFds == 2        \* descriptors the mixer may expose
MaxCalls == 3      \* calls of poll() explored
MaxNative == 2     \* native mixer events arriving after construction

FdIds == 1..MaxFds
Tokens == {"t0", "t1"}
Interests == {"readable"}
PollOpts == {"edge"}

\* the single pollable object handed to poll_all (line 216: &[mixer])
Mixer == "mixer"

VARIABLES
    pc,           \* "new" | "idle" | "probe" | "drain" | "ret" | "dropped" |
                  \* "noStream" | "panicRegister" | "panicReregister" |
                  \* "panicDeregister"
    initial,      \* AlsaEventStream.initial
    ready,        \* local `ready` of poll(): the objects poll_all reported
    fds,          \* what AlsaEvented::fds() returns, in order
    pending,      \* descriptors with an undrained native event
    regArgs,      \* the arguments Evented::register was called with
    regLog,       \* calls received by the reactor's register operation
    regFds,       \* what fds() returned when register ran
    regBad,       \* descriptors on which the reactor's register fails
    rereg,        \* the Evented::reregister call made, if any (`done`)
    fdsChanged,   \* the mixer's descriptor set changed after registration
    deregLog,     \* calls received by the reactor's deregister operation
    deregResult,  \* what AlsaEvented::deregister returned: "none" | "Ok" | "Err"
    registered,   \* descriptors currently registered with the reactor
    edge,         \* a readiness edge the reactor has not dispatched yet
    ioReadiness,  \* readiness recorded by the reactor for the registration
    readiness,    \* readiness cached in the PollEvented
    reader,       \* the task is parked, waiting for read readiness
    notified,     \* the task has been woken and not polled since
    result,       \* what the last poll() returned; "none" while one is running
    nCalls,       \* poll() calls started
    nEvents,      \* Ready(Some(())) results returned
    nRearm,       \* need_read() calls made
    nNative,      \* native events arrived since construction
    failed,       \* poll_all or revents has returned an error on this stream
    owed,         \* a native event arrived and no item was yielded since
    cGate,        \* this call: "initial" | "ready" | "notready" | "none"
    cProbes,      \* this call: poll_all invocations
    cRearms,      \* this call: need_read invocations
    cEvents,      \* this call: items yielded
    cErr,         \* this call: poll_all or revents failed
    cPending,     \* this call: descriptors poll_all found pending
    cWakes,       \* this call: reactor wake-ups that preceded it
    cDrains,      \* this call: revents invocations
    wakesSince    \* reactor wake-ups since the last poll() was entered

vars == <<pc, initial, ready, fds, pending, regArgs, regLog, regFds, regBad,
          rereg, fdsChanged, deregLog, deregResult,
          registered, edge, ioReadiness, readiness, reader, notified, result,
          nCalls, nEvents, nRearm, nNative, failed, owed,
          cGate, cProbes, cRearms, cEvents, cErr, cPending, cWakes, cDrains,
          wakesSince>>

regVars == <<regFds, regBad, rereg, fdsChanged>>
streamVars == <<initial, ready>>
reactorVars == <<regArgs, regLog, regVars, deregLog, deregResult, registered, edge,
                 ioReadiness, readiness, reader, notified, wakesSince>>
callVars == <<cGate, cProbes, cRearms, cEvents, cErr, cPending, cWakes, cDrains>>
countVars == <<nCalls, nEvents, nRearm, failed>>

\* ---------------------------------------------------------------- helpers
Range(s) == {s[i] : i \in 1..Len(s)}

\* ordered descriptor sets without repetition: up to renaming of the
\* descriptors, the ascending and the descending ones
FdSeqs == {[i \in 1..n |-> i] : n \in 0..MaxFds} \cup
          {[i \in 1..n |-> n + 1 - i] : n \in 0..MaxFds}

\* AlsaEvented::fds(): the mixer's descriptors, in the mixer's order
Fds == fds

\* ------------------------------------------------- AlsaEvented (Evented)
\* register(): one EventedFd::register per descriptor, `?` on each.
\* `bad` is the set of descriptors on which the reactor call fails.
\* (variant: the loop returns after the first descriptor)
RegisterFirstOnly(left, token, interest, opts, bad) ==
    IF left = <<>> THEN [calls |-> <<>>, ok |-> TRUE]
    ELSE [calls |-> <<[fd |-> Head(left), token |-> token,
                       interest |-> interest, opts |-> opts]>>,
          ok |-> Head(left) \notin bad]

\* (variant: the loop goes on after a failure and reports it at the end)
RECURSIVE RegisterBestEffort(_, _, _, _, _)
RegisterBestEffort(left, token, interest, opts, bad) ==
    IF left = <<>> THEN [calls |-> <<>>, ok |-> TRUE]
    ELSE LET call == [fd |-> Head(left), token |-> token,
                      interest |-> interest, opts |-> opts]
             rest == RegisterBestEffort(Tail(left), token, interest, opts, bad)
         IN  [calls |-> <<call>> \o rest.calls,
              ok |-> rest.ok /\ Head(left) \notin bad]

RECURSIVE RegisterLoop(_, _, _, _, _)
RegisterLoop(left, token, interest, opts, bad) ==
    IF left = <<>> THEN [calls |-> <<>>, ok |-> TRUE]
    ELSE LET call == [fd |-> Head(left), token |-> token,
                      interest |-> interest, opts |-> opts]
         IN  IF Head(left) \in bad
             THEN [calls |-> <<call>>, ok |-> FALSE]
             ELSE LET rest == RegisterLoop(Tail(left), token, interest, opts, bad)
                  IN  [calls |-> <<call>> \o rest.calls, ok |-> rest.ok]

\* reregister(): one EventedFd::reregister per descriptor, `?` on each.
RECURSIVE ReregisterLoop(_, _, _, _, _)
ReregisterLoop(left, token, interest, opts, bad) ==
    IF left = <<>> THEN [calls |-> <<>>, ok |-> TRUE]
    ELSE LET call == [fd |-> Head(left), token |-> token,
                      interest |-> interest, opts |-> opts]
         IN  IF Head(left) \in bad
             THEN [calls |-> <<call>>, ok |-> FALSE]
             ELSE LET rest == ReregisterLoop(Tail(left), token, interest, opts, bad)
                  IN  [calls |-> <<call>> \o rest.calls, ok |-> rest.ok]

\* deregister(): one EventedFd::deregister per descriptor, `?` on each.
RECURSIVE DeregisterLoop(_, _)
DeregisterLoop(left, bad) ==
    IF left = <<>> THEN [calls |-> <<>>, ok |-> TRUE]
    ELSE IF Head(left) \in bad
         THEN [calls |-> <<Head(left)>>, ok |-> FALSE]
         ELSE LET rest == DeregisterLoop(Tail(left), bad)
              IN  [calls |-> <<Head(left)>> \o rest.calls, ok |-> rest.ok]

\* Evented::register / Evented::deregister for AlsaEvented: iterate fds()
register(token, interest, opts, bad) ==
    RegisterLoop(Fds, token, interest, opts, bad)

reregister(token, interest, opts, bad) ==
    ReregisterLoop(Fds, token, interest, opts, bad)

\* (variant: deregister walks the descriptors that were registered)
deregisterRegistered(bad) == DeregisterLoop(regFds, bad)

deregister(bad) == DeregisterLoop(Fds, bad)

\* the calls of a loop that succeeded (all but the last when it failed)
Succeeded(calls, ok) ==
    IF ok THEN calls ELSE SubSeq(calls, 1, Len(calls) - 1)

\* ---------------------------------------------------------------- Init
\* AlsaEventStream::new sets initial: true
\* (variant: the stream starts in the steady phase)
InitialPhaseSteady == FALSE

InitialPhase == TRUE

Init ==
    /\ pc = "new"
    /\ initial = InitialPhase
    /\ ready = <<>>
    /\ fds \in FdSeqs
    /\ pending \in SUBSET Range(fds)
    /\ regArgs = <<>>
    /\ regLog = <<>>
    /\ regFds = <<>>
    /\ regBad = {}
    /\ rereg = [done |-> FALSE, fds |-> <<>>, bad |-> {}, args |-> <<>>,
                calls |-> <<>>, ok |-> TRUE]
    /\ fdsChanged = FALSE
    /\ deregLog = <<>>
    /\ deregResult = "none"
    /\ registered = {}
    /\ edge = FALSE
    /\ ioReadiness = FALSE
    /\ readiness = FALSE
    /\ reader = FALSE
    /\ notified = FALSE
    /\ result = "none"
    /\ nCalls = 0
    /\ nEvents = 0
    /\ nRearm = 0
    /\ nNative = 0
    /\ failed = FALSE
    /\ owed = FALSE
    /\ cGate = "none"
    /\ cProbes = 0
    /\ cRearms = 0
    /\ cEvents = 0
    /\ cErr = FALSE
    /\ cPending = 0
    /\ cWakes = 0
    /\ cDrains = 0
    /\ wakesSince = 0

\* ------------------------------------------------- AlsaEventStream::new
\* PollEvented::new registers the AlsaEvented with the reactor; the task
\* that owns the stream is polled once after it is spawned.  Descriptors
\* that are already readable when they are registered may or may not
\* produce a first edge.
NewOk(token, interest, opts, firstEdge) ==
    LET r == register(token, interest, opts, {})
    IN  /\ pc = "new"
        /\ regArgs' = <<token, interest, opts>>
        /\ regLog' = regLog \o r.calls
        /\ regFds' = Fds
        /\ regBad' = {}
        /\ UNCHANGED <<rereg, fdsChanged>>
        /\ registered' = registered \cup
                 {c.fd : c \in Range(Succeeded(r.calls, r.ok))}
        /\ edge' = (firstEdge /\ pending # {})
        /\ notified' = TRUE
        /\ pc' = "idle"
        /\ UNCHANGED <<streamVars, fds, pending, deregLog, deregResult,
                       ioReadiness, readiness, reader, wakesSince, result,
                       countVars, nNative, owed, callVars>>

\* one of the register calls fails: `?` in PollEvented::new, no stream
NewErr(token, interest, opts, bad) ==
    LET r == register(token, interest, opts, bad)
    IN  /\ pc = "new"
        /\ ~r.ok
        /\ regArgs' = <<token, interest, opts>>
        /\ regLog' = regLog \o r.calls
        /\ regFds' = Fds
        /\ regBad' = bad \cap Range(Fds)
        /\ UNCHANGED <<rereg, fdsChanged>>
        /\ registered' = registered \cup
                 {c.fd : c \in Range(Succeeded(r.calls, r.ok))}
        /\ pc' = "noStream"
        /\ UNCHANGED <<streamVars, fds, pending, deregLog, deregResult, edge,
                       notified, ioReadiness, readiness, reader, wakesSince,
                       result, countVars, nNative, owed, callVars>>

\* ------------------------------------------------ reactor (PollEvented)
\* poll_read(): Ready when readiness is cached or the reactor has recorded
\* it (which moves it into the cache); otherwise the task is parked.
PollReadReady == readiness \/ ioReadiness

\* need_read(): clears the cached readiness and parks the task again; the
\* reactor wakes the task at once when it has readiness recorded already.
\* (variant: need_read only clears the cached readiness)
NeedReadClearOnly ==
    /\ readiness' = FALSE
    /\ UNCHANGED <<ioReadiness, reader, notified>>

NeedReadReactor ==
    /\ readiness' = FALSE
    /\ IF ioReadiness
       THEN notified' = TRUE /\ reader' = reader
       ELSE reader' = TRUE /\ notified' = notified
    /\ UNCHANGED ioReadiness

\* ------------------------------------------------ AlsaEventStream::poll
EnterCall(gate) ==
    /\ pc = "idle"
    /\ nCalls < MaxCalls
    /\ nCalls' = nCalls + 1
    /\ cGate' = gate
    /\ cProbes' = 0
    /\ cRearms' = 0
    /\ cEvents' = 0
    /\ cErr' = FALSE
    /\ cPending' = 0
    /\ cWakes' = wakesSince
    /\ cDrains' = 0
    /\ wakesSince' = 0
    /\ notified' = FALSE

\* lines 204-209, initial == true: poll_read is skipped
PollInitial ==
    /\ initial
    /\ EnterCall("initial")
    /\ result' = "none"
    /\ initial' = FALSE
    /\ pc' = "probe"
    /\ UNCHANGED <<ready, fds, pending, regArgs, regLog, regVars, deregLog, deregResult,
                   registered, edge, ioReadiness, readiness, reader,
                   nEvents, nRearm, nNative, failed, owed>>

\* lines 204-209, initial == false and poll_read() is Ready
PollReady ==
    /\ ~initial
    /\ PollReadReady
    /\ EnterCall("ready")
    /\ result' = "none"
    /\ readiness' = TRUE
    /\ ioReadiness' = (readiness /\ ioReadiness)
    /\ initial' = FALSE
    /\ pc' = "probe"
    /\ UNCHANGED <<ready, fds, pending, regArgs, regLog, regVars, deregLog, deregResult,
                   registered, edge, reader,
                   nEvents, nRearm, nNative, failed, owed>>

\* (variant: the suspending branch re-arms before it returns)
PollNotReadyRearm ==
    /\ ~initial
    /\ ~PollReadReady
    /\ EnterCall("notready")
    /\ reader' = TRUE
    /\ nRearm' = nRearm + 1
    /\ result' = "NotReady"
    /\ pc' = "idle"
    /\ UNCHANGED <<initial, ready, fds, pending, regArgs, regLog, regVars, deregLog,
                   deregResult, registered, edge, ioReadiness, readiness,
                   nEvents, nNative, failed, owed>>

\* lines 204-207, initial == false and poll_read() is NotReady
PollNotReady ==
    /\ ~initial
    /\ ~PollReadReady
    /\ EnterCall("notready")
    /\ reader' = TRUE
    /\ result' = "NotReady"
    /\ pc' = "idle"
    /\ UNCHANGED <<initial, ready, fds, pending, regArgs, regLog, regVars, deregLog,
                   deregResult, registered, edge, ioReadiness, readiness,
                   nEvents, nRearm, nNative, failed, owed>>

\* line 216: alsa::poll::poll_all(&[mixer], 0) succeeds; it reports the
\* mixer when at least one of its descriptors has an event pending
ProbeOk ==
    /\ pc = "probe"
    /\ cProbes' = cProbes + 1
    /\ cPending' = Cardinality(pending)
    /\ ready' = IF pending # {} THEN <<Mixer>> ELSE <<>>
    /\ pc' = "drain"
    /\ UNCHANGED <<initial, fds, pending, reactorVars, result, countVars,
                   nNative, owed, cGate, cRearms, cEvents, cErr, cWakes, cDrains>>

\* (variant: the error is turned into the end of the stream)
ReturnEnd ==
    /\ cErr' = TRUE
    /\ failed' = TRUE
    /\ result' = "End"
    /\ pc' = "idle"

\* what poll() does when poll_all, get() or revents() returns Err: `?`
ReturnErr ==
    /\ cErr' = TRUE
    /\ failed' = TRUE
    /\ result' = "Err"
    /\ pc' = "idle"

\* (variant: a failed poll_all is tried again)
ProbeErrRetry ==
    /\ pc = "probe"
    /\ cProbes < 2
    /\ cProbes' = cProbes + 1
    /\ UNCHANGED <<pc, streamVars, fds, pending, reactorVars, result,
                   countVars, nNative, owed, cGate, cRearms, cEvents, cErr,
                   cPending, cWakes, cDrains>>

\* (variant: a failed poll_all puts the stream back into its first phase)
ProbeErrRollback ==
    /\ pc = "probe"
    /\ cProbes' = cProbes + 1
    /\ ReturnErr
    /\ initial' = TRUE
    /\ UNCHANGED <<ready, fds, pending, reactorVars, nCalls, nEvents,
                   nRearm, nNative, owed, cGate, cRearms, cEvents,
                   cPending, cWakes, cDrains>>

\* line 216: poll_all fails
ProbeErr ==
    /\ pc = "probe"
    /\ cProbes' = cProbes + 1
    /\ ReturnErr
    /\ UNCHANGED <<streamVars, fds, pending, reactorVars, nCalls, nEvents,
                   nRearm, nNative, owed, cGate, cRearms, cEvents,
                   cPending, cWakes, cDrains>>

\* lines 218-220: one iteration of the loop; revents() clears the events
\* pending on the object's descriptors
DrainOk ==
    /\ pc = "drain"
    /\ ready # <<>>
    /\ pending' = {}
    /\ ready' = Tail(ready)
    /\ cDrains' = cDrains + 1
    /\ UNCHANGED <<pc, initial, fds, reactorVars, result, countVars,
                   nNative, owed, cGate, cProbes, cRearms, cEvents, cErr,
                   cPending, cWakes>>

\* (variant: the reactor is re-armed before the error is returned)
DrainErrRearm ==
    /\ pc = "drain"
    /\ ready # <<>>
    /\ ReturnErr
    /\ NeedReadReactor
    /\ nRearm' = nRearm + 1
    /\ cRearms' = cRearms + 1
    /\ UNCHANGED <<streamVars, fds, pending, regArgs, regLog, regVars, deregLog,
                   deregResult, registered, edge, wakesSince, nCalls,
                   nEvents, nNative, owed, cGate, cProbes, cEvents,
                   cPending, cWakes, cDrains>>

\* line 219: get() or revents() fails
DrainErr ==
    /\ pc = "drain"
    /\ ready # <<>>
    /\ ReturnErr
    /\ UNCHANGED <<streamVars, fds, pending, reactorVars, nCalls, nEvents,
                   nRearm, nNative, owed, cGate, cProbes, cRearms, cEvents,
                   cPending, cWakes, cDrains>>

\* (variant: need_read() is called before the loop is over)
NeedReadEarly ==
    /\ pc = "drain"
    /\ NeedReadReactor
    /\ nRearm' = nRearm + 1
    /\ cRearms' = cRearms + 1
    /\ pc' = "ret"
    /\ UNCHANGED <<streamVars, fds, pending, regArgs, regLog, regVars, deregLog,
                   deregResult, registered, edge, wakesSince, result, nCalls,
                   nEvents, nNative, failed, owed, cGate, cProbes, cEvents,
                   cErr, cPending, cWakes, cDrains>>

\* (variant: the loop is over, need_read() is left out)
NeedReadSkipped ==
    /\ pc = "drain"
    /\ ready = <<>>
    /\ pc' = "ret"
    /\ UNCHANGED <<streamVars, fds, pending, reactorVars, result, countVars,
                   nNative, owed, callVars>>

\* line 223: the loop is over, self.poll.need_read()
NeedRead ==
    /\ pc = "drain"
    /\ ready = <<>>
    /\ NeedReadReactor
    /\ nRearm' = nRearm + 1
    /\ cRearms' = cRearms + 1
    /\ pc' = "ret"
    /\ UNCHANGED <<streamVars, fds, pending, regArgs, regLog, regVars, deregLog, deregResult,
                   registered, edge, wakesSince, result, nCalls, nEvents,
                   nNative, failed, owed, cGate, cProbes, cEvents, cErr,
                   cPending, cWakes, cDrains>>

\* (variant: one item per descriptor that was pending)
ReturnReadyPerDescriptor ==
    /\ pc = "ret"
    /\ result' = "Event"
    /\ nEvents' = nEvents + cPending
    /\ cEvents' = cEvents + cPending
    /\ owed' = FALSE
    /\ pc' = "idle"
    /\ UNCHANGED <<streamVars, fds, pending, reactorVars, nCalls, nRearm,
                   nNative, failed, cGate, cProbes, cRearms, cErr,
                   cPending, cWakes, cDrains>>

\* line 225: Ok(Async::Ready(Some(())))
ReturnReady ==
    /\ pc = "ret"
    /\ result' = "Event"
    /\ nEvents' = nEvents + 1
    /\ cEvents' = cEvents + 1
    /\ owed' = FALSE
    /\ pc' = "idle"
    /\ UNCHANGED <<streamVars, fds, pending, reactorVars, nCalls, nRearm,
                   nNative, failed, cGate, cProbes, cRearms, cErr,
                   cPending, cWakes, cDrains>>

\* ------------------------------------------------------------ environment
Alive == pc \in {"idle", "probe", "drain", "ret"}

\* the mixer gets an event on one of its descriptors.  A descriptor that
\* becomes readable raises an edge; one that was readable already may not.
NativeEvent(fd, newEdge) ==
    /\ Alive
    /\ nNative < MaxNative
    /\ fd \in Range(fds)
    /\ nNative' = nNative + 1
    /\ pending' = pending \cup {fd}
    /\ edge' = (edge \/ fd \notin pending \/ newEdge)
    /\ owed' = TRUE
    /\ UNCHANGED <<pc, streamVars, fds, regArgs, regLog, regVars, deregLog, deregResult,
                   registered, ioReadiness, readiness, reader, notified,
                   wakesSince, result, countVars, callVars>>

\* the reactor dispatches an edge: it records readiness for the
\* registration and wakes the task parked on it
ReactorWake ==
    /\ Alive
    /\ edge
    /\ edge' = FALSE
    /\ ioReadiness' = TRUE
    /\ IF reader
       THEN reader' = FALSE /\ notified' = TRUE
       ELSE UNCHANGED <<reader, notified>>
    /\ wakesSince' = wakesSince + 1
    /\ UNCHANGED <<pc, streamVars, fds, pending, regArgs, regLog, regVars, deregLog,
                   deregResult, registered, readiness, result, countVars,
                   nNative, owed, callVars>>

\* ------------------------------------------------------------------ drop
\* The stream is dropped between two calls of poll(); dropping the
\* PollEvented deregisters the AlsaEvented, once, and ignores the result.
Drop(bad) ==
    LET r == deregister(bad)
    IN  /\ pc = "idle"
        /\ deregLog' = deregLog \o r.calls
        /\ deregResult' = IF r.ok THEN "Ok" ELSE "Err"
        /\ registered' = registered \ Range(Succeeded(r.calls, r.ok))
        /\ pc' = "dropped"
        /\ UNCHANGED <<streamVars, fds, pending, regArgs, regLog, regVars, edge, ioReadiness,
                       readiness, reader, notified, wakesSince, result,
                       countVars, nNative, owed, callVars>>

\* ------------------------------------------------------- the registrar
\* Evented::reregister called on the live AlsaEvented.  A reactor call that
\* fails leaves the registrations as they are.
Reregister(token, interest, opts, bad) ==
    LET r == reregister(token, interest, opts, bad)
    IN  /\ pc = "idle"
        /\ ~rereg.done
        /\ rereg' = [done |-> TRUE, fds |-> Fds, bad |-> bad \cap Range(Fds),
                     args |-> <<token, interest, opts>>,
                     calls |-> r.calls, ok |-> r.ok]
        /\ UNCHANGED <<pc, streamVars, fds, pending, regArgs, regLog, regFds,
                       regBad, fdsChanged, deregLog, deregResult, registered,
                       edge, ioReadiness, readiness, reader, notified,
                       wakesSince, result, countVars, nNative, owed,
                       callVars>>

\* fds(): self.0.get() fails and unwrap() panics (line 132), before any
\* reactor call of the operation that asked for the descriptors
Panicked == {"panicRegister", "panicReregister", "panicDeregister"}

FdsPanic(op) ==
    /\ pc' = op
    /\ UNCHANGED <<streamVars, fds, pending, regArgs, regLog, regVars,
                   deregLog, deregResult, registered, edge, ioReadiness,
                   readiness, reader, notified, wakesSince, result,
                   countVars, nNative, owed, callVars>>

\* register, called by PollEvented::new, cannot enumerate the descriptors
NewPanic == pc = "new" /\ FdsPanic("panicRegister")

\* reregister cannot enumerate the descriptors
ReregisterPanic ==
    pc = "idle" /\ ~rereg.done /\ FdsPanic("panicReregister")

\* deregister, called when the stream is dropped, cannot enumerate them
DropPanic == pc = "idle" /\ FdsPanic("panicDeregister")

\* the mixer's descriptor set changes under a live stream (the case the
\* comment at lines 167-168 leaves open)
FdsChange(new) ==
    /\ pc = "idle"
    /\ ~fdsChanged
    /\ new # fds
    /\ fds' = new
    /\ pending' = pending \cap Range(new)
    /\ fdsChanged' = TRUE
    /\ UNCHANGED <<pc, streamVars, regArgs, regLog, regFds, regBad, rereg,
                   deregLog, deregResult, registered, edge, ioReadiness,
                   readiness, reader, notified, wakesSince, result,
                   countVars, nNative, owed, callVars>>

\* ------------------------------------------------------------------ spec
Next ==
    \/ \E t \in Tokens, i \in Interests, o \in PollOpts, e \in BOOLEAN :
           NewOk(t, i, o, e)
    \/ \E t \in Tokens, i \in Interests, o \in PollOpts, b \in SUBSET FdIds :
           NewErr(t, i, o, b)
    \/ PollInitial
    \/ PollReady
    \/ PollNotReady
    \/ ProbeOk
    \/ ProbeErr
    \/ DrainOk
    \/ DrainErr
    \/ NeedRead
    \/ ReturnReady
    \/ \E fd \in FdIds, e \in BOOLEAN : NativeEvent(fd, e)
    \/ ReactorWake
    \/ \E b \in SUBSET FdIds : Drop(b)

Spec == Init /\ [][Next]_vars

\* The same program when no operation fails and the stream is kept, with
\* the scheduling the runtime provides: a woken task is polled, a poll
\* that has started runs to its return, the reactor dispatches edges.
PollWoken == notified /\ (PollInitial \/ PollReady \/ PollNotReady)

NextLive ==
    \/ \E t \in Tokens, i \in Interests, o \in PollOpts, e \in BOOLEAN :
           NewOk(t, i, o, e)
    \/ PollInitial
    \/ PollReady
    \/ PollNotReady
    \/ ProbeOk
    \/ DrainOk
    \/ NeedRead
    \/ ReturnReady
    \/ \E fd \in FdIds, e \in BOOLEAN : NativeEvent(fd, e)
    \/ ReactorWake

LiveSpec ==
    /\ Init
    /\ [][NextLive]_vars
    /\ WF_vars(\E t \in Tokens, i \in Interests, o \in PollOpts, e \in BOOLEAN :
                   NewOk(t, i, o, e))
    /\ WF_vars(PollWoken)
    /\ WF_vars(ProbeOk)
    /\ WF_vars(DrainOk)
    /\ WF_vars(NeedRead)
    /\ WF_vars(ReturnReady)
    /\ WF_vars(ReactorWake)

\* The registrar on its own: construction, reregister, a changing
\* descriptor set, failing enumeration, and the drop of the stream.
RegNext ==
    \/ \E t \in Tokens, i \in Interests, o \in PollOpts, e \in BOOLEAN :
           NewOk(t, i, o, e)
    \/ \E t \in Tokens, i \in Interests, o \in PollOpts, b \in SUBSET FdIds :
           NewErr(t, i, o, b)
    \/ NewPanic
    \/ \E t \in Tokens, i \in Interests, o \in PollOpts, b \in SUBSET FdIds :
           Reregister(t, i, o, b)
    \/ ReregisterPanic
    \/ \E new \in FdSeqs : FdsChange(new)
    \/ \E b \in SUBSET FdIds : Drop(b)
    \/ DropPanic

RegSpec == Init /\ [][RegNext]_vars

\* ================================================================ claims
Count(s, x) == Cardinality({i \in 1..Len(s) : s[i] = x})

Returned == pc = "idle" /\ nCalls > 0

\* C1 (as stated): the first advance() of a fresh stream always yields a
\* NotificationEvent, whatever the reactor and the resource report.
C1_FirstAlwaysEvent ==
    (Returned /\ nCalls = 1) => result = "Event"

\* C1 (amended): the first advance() of a fresh stream never consults the
\* reactor and never returns not-ready; it yields a NotificationEvent for
\* every readiness and every pending set, unless poll_all or revents fails
\* during it, in which case it returns that error.
C1_InitialDrain ==
    /\ nCalls = 1 => cGate = "initial"
    /\ (Returned /\ nCalls = 1) => result = IF cErr THEN "Err" ELSE "Event"

\* first call returned an item although the reactor never reported
\* readiness and nothing was pending
C1_Witness ==
    /\ Returned /\ nCalls = 1 /\ result = "Event"
    /\ ~readiness /\ ~ioReadiness /\ ~edge
    /\ cWakes = 0 /\ wakesSince = 0 /\ nNative = 0 /\ cPending = 0

\* C2 (as stated): once poll_all or revents has failed on a stream, no
\* later advance() on it produces a NotificationEvent.
C2_Termination == [][failed => nEvents' = nEvents]_vars

\* C3: when no operation fails and a woken task is polled, every native
\* event arriving after construction is followed by an advance() that
\* yields a NotificationEvent, and an undrained event does not stay for
\* ever (within the calls explored).
C3_NoLostWakeup ==
    /\ owed ~> (~owed \/ nCalls = MaxCalls)
    /\ (pending # {} /\ pc # "new") ~> (pending = {} \/ nCalls = MaxCalls)

\* a wake-up arrived between the probe and need_read of one advance(),
\* with the event still undrained
C3_Witness ==
    /\ pc = "ret" /\ owed /\ pending # {} /\ notified /\ cPending = 0
    /\ nCalls < MaxCalls

\* C4: an advance() yields at most one NotificationEvent, exactly one when
\* it succeeds and none otherwise, whatever the number of pending
\* descriptors and of wake-ups; events never outnumber calls.
C4_Coalescing ==
    /\ cEvents <= 1
    /\ nEvents <= nCalls
    /\ (Returned /\ result = "Event") => cEvents = 1
    /\ (Returned /\ result # "Event") => cEvents = 0

\* one item for two pending descriptors after two wake-ups
C4_Witness ==
    /\ Returned /\ result = "Event" /\ cEvents = 1
    /\ cPending >= 2 /\ cWakes >= 2

\* C5: an advance() that yields a NotificationEvent has called need_read
\* exactly once, before returning; need_read calls equal events yielded.
C5_Rearm ==
    /\ pc = "ret" => cRearms = 1
    /\ (Returned /\ result = "Event") => cRearms = 1
    /\ nRearm = nEvents + (IF pc = "ret" THEN 1 ELSE 0)

\* two successful advances, two re-arms
C5_Witness ==
    /\ Returned /\ result = "Event" /\ nEvents >= 2 /\ nRearm = nEvents

\* C6 (as stated): dropping the stream attempts the deregistration of each
\* descriptor of the set exactly once, also when one attempt fails; no
\* descriptor is attempted more than once.
C6_Teardown ==
    /\ \A fd \in FdIds : Count(deregLog, fd) <= 1
    /\ pc = "dropped" => \A fd \in Range(fds) : Count(deregLog, fd) = 1

\* C7 (as stated): registering K descriptors makes exactly K register
\* calls, in set order, with the arguments given to register.
C7_ExactlyK ==
    pc # "new" =>
        /\ Len(regLog) = Len(fds)
        /\ \A i \in 1..Len(regLog) :
               regLog[i] = [fd |-> fds[i], token |-> regArgs[1],
                            interest |-> regArgs[2], opts |-> regArgs[3]]

\* C7 (amended): registering K descriptors makes one register call per
\* descriptor in set order, each with the arguments given to register:
\* exactly K calls when every call succeeds, and otherwise the calls up to
\* and including the first one that fails.
C7_DescriptorCount ==
    pc # "new" =>
        /\ Len(regLog) <= Len(fds)
        /\ pc # "noStream" => Len(regLog) = Len(fds)
        /\ pc = "noStream" => Len(regLog) >= 1
        /\ \A i \in 1..Len(regLog) :
               regLog[i] = [fd |-> fds[i], token |-> regArgs[1],
                            interest |-> regArgs[2], opts |-> regArgs[3]]

\* two descriptors, two register calls
C7_Witness ==
    /\ pc = "idle" /\ Len(fds) = 2 /\ Len(regLog) = 2
    /\ regLog[1].fd = fds[1] /\ regLog[2].fd = fds[2]

\* C8: every advance() returns an event, not-ready or an error, never the
\* end of the stream; a call that passes the readiness check and meets no
\* failure yields an event, and in the steady phase a call made while
\* readiness is signalled passes the check, after any number of events.
C8_NonTerminating ==
    /\ [](Returned => result \in {"Event", "NotReady", "Err"})
    /\ []((Returned /\ cGate # "notready" /\ ~cErr) => result = "Event")
    /\ [][(nCalls' = nCalls + 1 /\ (initial \/ readiness \/ ioReadiness))
              => pc' = "probe"]_vars

\* a third event in a row, obtained in the steady phase
C8_Witness ==
    /\ Returned /\ result = "Event" /\ cGate = "ready" /\ ~failed
    /\ nEvents >= 3

\* C9: a failure of poll_all or revents is the result of the advance() in
\* which it happens: that call returns the error, yields no event, does
\* not re-arm, and has called poll_all at most once.
C9_ErrorSurfaced ==
    /\ cProbes <= 1
    /\ cErr => /\ pc \in {"idle", "dropped"}
               /\ result = "Err"
               /\ cEvents = 0
               /\ cRearms = 0

\* revents failed in the steady phase, after a successful probe
C9_Witness ==
    /\ cErr /\ result = "Err" /\ ready # <<>> /\ cProbes = 1
    /\ cGate = "ready" /\ pc = "idle"

\* C10 (as stated): deregister attempts every descriptor of the set, also
\* after an attempt has failed.
C10_BestEffort ==
    pc = "dropped" => deregLog = fds

\* C12 (as stated): whenever the phase is Steady, some advance() has
\* completed successfully and yielded a NotificationEvent; an advance()
\* whose probe or drain fails leaves the phase at InitialDrain.
C12_SteadyAfterSuccess ==
    /\ (Returned /\ ~initial) => nEvents >= 1
    /\ (Returned /\ cErr /\ cGate = "initial") => initial

\* C13: a stream is constructed in InitialDrain and, once Steady, no
\* advance() (ready, not-ready or failing) brings it back to InitialDrain.
C13_OneWay ==
    /\ [](pc = "new" => initial)
    /\ [][~initial => ~initial']_vars

\* still Steady after a failing call followed by a suspended one
C13_Witness ==
    /\ ~initial /\ Returned /\ failed /\ result = "NotReady"

\* C14: in an advance() that yields a NotificationEvent, poll_all is called
\* first, then revents for every object that this poll_all reported and
\* for no other, and need_read only after the loop is over.
C14_DrainOrder ==
    /\ []((pc = "ret" \/ (Returned /\ result = "Event")) =>
              /\ cProbes = 1
              /\ ready = <<>>
              /\ cDrains = (IF cPending > 0 THEN 1 ELSE 0)
              /\ cRearms = 1)
    /\ [](cDrains > 0 => (cProbes = 1 /\ cPending > 0))
    /\ [][cDrains' > cDrains => (cProbes = 1 /\ cRearms = 0)]_vars
    /\ [][cRearms' > cRearms => (cProbes = 1 /\ ready = <<>>)]_vars

\* an event after one probe, one drain and then one re-arm
C14_Witness ==
    /\ Returned /\ result = "Event"
    /\ cProbes = 1 /\ cPending >= 1 /\ cDrains = 1 /\ cRearms = 1

\* C15: advance() returns not-ready only in the Steady phase when the
\* reactor does not report readiness; that call probes, drains and re-arms
\* nothing and leaves the phase alone.  In InitialDrain the reactor's
\* readiness is not consulted.
C15_Suspension ==
    /\ []((Returned /\ result = "NotReady") =>
              /\ cGate = "notready" /\ ~initial
              /\ cProbes = 0 /\ cDrains = 0 /\ cRearms = 0 /\ cEvents = 0)
    /\ [][(nCalls' = nCalls + 1 /\ result' = "NotReady") =>
              /\ ~initial /\ ~readiness /\ ~ioReadiness
              /\ UNCHANGED <<initial, ready, pending, readiness,
                             ioReadiness, nRearm, nEvents>>]_vars
    /\ [][(nCalls' = nCalls + 1 /\ initial) =>
              /\ pc' = "probe"
              /\ UNCHANGED <<readiness, ioReadiness, reader>>]_vars

\* suspended while an event is pending whose edge is not dispatched yet
C15_Witness ==
    /\ Returned /\ result = "NotReady" /\ pending # {} /\ edge

\* C18: an advance() that fails in poll_all or revents has not called
\* need_read; the step that fails leaves the reactor's state alone, so the
\* cached readiness is what it was when the drain cycle started.
C18_NoRearmOnFailure ==
    /\ [](cErr => /\ cRearms = 0
                  /\ nRearm = nEvents
                  /\ readiness = (cGate = "ready"))
    /\ [][(cErr' /\ ~cErr) =>
              UNCHANGED <<readiness, ioReadiness, reader, notified,
                          nRearm>>]_vars

\* a failure in the steady phase: readiness is still cached, and a
\* wake-up that arrived meanwhile is still recorded
C18_Witness ==
    /\ cErr /\ Returned /\ cGate = "ready" /\ readiness /\ ioReadiness

\* what a fail-fast walk over `set` leaves in the reactor's log `calls`
\* when the reactor fails on the descriptors in `bad`: the descriptors in
\* set order, up to and including the first one that fails
FailFast(calls, set, bad, ok) ==
    LET n == Len(calls)
    IN  /\ n <= Len(set)
        /\ \A i \in 1..n : calls[i] = set[i]
        /\ \A i \in 1..n : set[i] \in bad => i = n
        /\ n < Len(set) => (n >= 1 /\ set[n] \in bad)
        /\ ok = (\A i \in 1..n : set[i] \notin bad)

CallFds(calls) == [i \in 1..Len(calls) |-> calls[i].fd]

\* C11: register and reregister attempt the descriptors in set order; when
\* the attempt on one fails, the error is returned at once, no later
\* descriptor is attempted, and the earlier ones stay registered: no
\* deregister call is made for them.
C11_FailFast ==
    /\ [](regArgs # <<>> =>
              /\ FailFast(CallFds(regLog), regFds, regBad, pc # "noStream")
              /\ pc = "noStream" =>
                     /\ registered = {regFds[i] : i \in 1..(Len(regLog) - 1)}
                     /\ deregLog = <<>>)
    /\ [](rereg.done =>
              FailFast(CallFds(rereg.calls), rereg.fds, rereg.bad, rereg.ok))
    /\ [][rereg' # rereg => UNCHANGED <<registered, deregLog, regLog>>]_vars

\* register failed on the second of two descriptors: both were attempted,
\* the first one stays registered and nothing was deregistered
C11_Witness ==
    /\ pc = "noStream" /\ Len(regFds) = 2 /\ Len(regLog) = 2
    /\ regBad = {regFds[2]} /\ registered = {regFds[1]} /\ deregLog = <<>>

\* C16 (as stated): when the descriptors cannot be enumerated, register,
\* reregister and deregister return an error to their caller instead of
\* aborting, without any reactor call.
C16_EnumerationError ==
    pc \notin Panicked

\* the descriptors deregistered by the drop: those attempted with success
Deregistered ==
    Range(Succeeded(deregLog, deregResult = "Ok"))

====
